---- MODULE Spec2Model ----
(***************************************************************************)
(* Prague (L4S) congestion control of picoquic, src/picoquic/prague.c.     *)
(*                                                                         *)
(* The state is the private state pr_state (picoquic_prague_state_t), the  *)
(* fields of the path the algorithm reads and writes, among them the       *)
(* pointer congestion_alg_state to the private state, and the packet       *)
(* contexts whose ECN counters and send sequence it snapshots.             *)
(*                                                                         *)
(* A uint64_t value v is held in full, as three limbs <<v2, v1, v0>> with  *)
(* v = v2 * 2^60 + v1 * 2^30 + v0, v1 and v0 below 2^30 and v2 below 2^4:  *)
(* 15360 is <<0, 0, 15360>> and UINT64_MAX is <<15, 2^30 - 1, 2^30 - 1>>.  *)
(* The U64 operators are the C operations modulo 2^64; the Big operators   *)
(* are the same operations without the reduction modulo 2^64.              *)
(***************************************************************************)
EXTENDS Integers, Sequences, FiniteSets, TLC

VARIABLES
    pr,                   \* picoquic_prague_state_t of the path
    path,                 \* fields of picoquic_path_t the algorithm uses
    is_multipath_enabled, \* cnx->is_multipath_enabled
    pkt_ctx,              \* packet contexts: the application one and the remote CID's
    now,                  \* current_time of the last call (monotonic, caller supplied)
    signal,               \* the signal that ended the process, if any
    ev,                   \* the last step: its kind, inputs, intermediate values, output
    run,                  \* the acknowledgements received in congestion avoidance
                          \* since the window or alpha was last set otherwise
    steps                 \* number of steps taken

vars == <<pr, path, is_multipath_enabled, pkt_ctx, now, signal, ev, run, steps>>

----------------------------------------------------------------------------
(* uint64_t arithmetic *)

\* 2^30, the base of the limbs
Limb == 1073741824

\* 2^4, the range of the top limb: 64 = 4 + 30 + 30
TopLimb == 16

\* the uint64_t of an integer 0 <= n < 2^31
U64(n) == <<0, n \div Limb, n % Limb>>

Zero == <<0, 0, 0>>

One == <<0, 0, 1>>

\* reduction modulo 2^64
Wrap(a) == <<a[1] % TopLimb, a[2], a[3]>>

\* a < b and a <= b
BigLt(a, b) ==
    IF a[1] # b[1] THEN a[1] < b[1]
    ELSE IF a[2] # b[2] THEN a[2] < b[2]
    ELSE a[3] < b[3]

BigLe(a, b) == a = b \/ BigLt(a, b)

BigMax(a, b) == IF BigLt(a, b) THEN b ELSE a

\* a + b
BigAdd(a, b) ==
    <<a[1] + b[1] + ((a[2] + b[2] + ((a[3] + b[3]) \div Limb)) \div Limb),
      (a[2] + b[2] + ((a[3] + b[3]) \div Limb)) % Limb,
      (a[3] + b[3]) % Limb>>

\* a - b; the top limb is negative when a < b
BigSub(a, b) ==
    <<a[1] - b[1] + ((a[2] - b[2] + ((a[3] - b[3]) \div Limb)) \div Limb),
      (a[2] - b[2] + ((a[3] - b[3]) \div Limb)) % Limb,
      (a[3] - b[3]) % Limb>>

\* the limbs of a cut at pow = 2^n and rest = 2^(30 - n)
ShrLimbs(a, pow, rest) ==
    <<a[1] \div pow,
      (a[2] \div pow) + (a[1] % pow) * rest,
      (a[3] \div pow) + (a[2] % pow) * rest>>

ShlLimbs(a, pow, rest) ==
    <<a[1] * pow + (a[2] \div rest),
      (a[2] % rest) * pow + (a[3] \div rest),
      (a[3] % rest) * pow>>

\* a >> n and a << n for 0 <= n <= 30, the latter without reduction
BigShr(a, n) == ShrLimbs(a, 2 ^ n, Limb \div (2 ^ n))

BigShl(a, n) == ShlLimbs(a, 2 ^ n, Limb \div (2 ^ n))

\* both below 2^30
BigSmall(a, b) == a[1] = 0 /\ a[2] = 0 /\ b[1] = 0 /\ b[2] = 0

\* 2^15, half a limb
HalfLimb == 32768

\* hi * 2^30 + mid * 2^15 + lo as <<high limb, low limb>>, for hi, lo below 2^30
\* and mid below 2^31
HalvesSum(hi, mid, lo) ==
    <<hi + (mid \div HalfLimb) + ((lo + (mid % HalfLimb) * HalfLimb) \div Limb),
      (lo + (mid % HalfLimb) * HalfLimb) % Limb>>

\* the product of x1 * 2^15 + x0 and y1 * 2^15 + y0
HalvesMul(x1, x0, y1, y0) == HalvesSum(x1 * y1, x1 * y0 + x0 * y1, x0 * y0)

\* x * y for two limbs, as <<high limb, low limb>>
LimbMul(x, y) == HalvesMul(x \div HalfLimb, x % HalfLimb, y \div HalfLimb, y % HalfLimb)

\* a * y from the products p1 and p0 of the limbs a[2] and a[3] by y
LimbProductsSum(a, y, p1, p0) ==
    <<a[1] * y + p1[1] + ((p1[2] + p0[1]) \div Limb), (p1[2] + p0[1]) % Limb, p0[2]>>

\* a * y for a limb y and a * y below 2^90
BigMul(a, y) == LimbProductsSum(a, y, LimbMul(a[2], y), LimbMul(a[3], y))

\* the digit 0 <= n < 16 with n * b <= r < (n + 1) * b
DivDigit(r, b) ==
    CHOOSE n \in 0..15 : BigLe(BigMul(b, n), r) /\ BigLt(r, BigMul(b, n + 1))

\* the quotient q and the remainder r extended by the digit d
DivEmit(q, r, b, d) == <<BigAdd(BigShl(q, 4), <<0, 0, d>>), BigSub(r, BigMul(b, d))>>

DivRemainder(q, r, b) == DivEmit(q, r, b, DivDigit(r, b))

\* one step of the long division by b, four bits at a time: h is the quotient and
\* remainder of a >> 4, nib the low four bits of a
DivStep(h, nib, b) == DivRemainder(h[1], BigAdd(BigShl(h[2], 4), <<0, 0, nib>>), b)

\* quotient and remainder of a by b # 0
RECURSIVE BigDivMod(_, _)
BigDivMod(a, b) ==
    IF BigLt(a, b)
    THEN <<Zero, a>>
    ELSE IF BigSmall(a, b)
    THEN <<U64(a[3] \div b[3]), U64(a[3] % b[3])>>
    ELSE DivStep(BigDivMod(BigShr(a, 4), b), a[3] % 16, b)

\* a < b and a <= b on uint64_t
U64Lt(a, b) == BigLt(a, b)

U64Le(a, b) == BigLe(a, b)

\* a + b, a - b on uint64_t
U64Add(a, b) == Wrap(BigAdd(a, b))

U64Sub(a, b) == Wrap(BigSub(a, b))

\* a * b modulo 2^64 from the products of the limbs: p00 = a[3] * b[3],
\* p01 = a[3] * b[2], p10 = a[2] * b[3], p11 = a[2] * b[2]
LimbProductsWrap(a, b, p00, p01, p10, p11) ==
    <<(((p00[1] + p01[2]) \div Limb) + ((((p00[1] + p01[2]) % Limb) + p10[2]) \div Limb)
          + (p01[1] % TopLimb) + (p10[1] % TopLimb) + (p11[2] % TopLimb)
          + (a[3] % TopLimb) * b[1] + a[1] * (b[3] % TopLimb)) % TopLimb,
      (((p00[1] + p01[2]) % Limb) + p10[2]) % Limb,
      p00[2]>>

\* a * b on uint64_t
U64Mul(a, b) ==
    LimbProductsWrap(a, b, LimbMul(a[3], b[3]), LimbMul(a[3], b[2]),
                     LimbMul(a[2], b[3]), LimbMul(a[2], b[2]))

\* a / b and a % b on uint64_t. Division by zero is undefined behaviour; these are
\* its values where the division instruction does not trap (quotient 0, and the
\* remainder a - 0 * b), the trap being taken by the callers.
U64Div(a, b) == IF b = Zero THEN Zero ELSE BigDivMod(a, b)[1]

U64Mod(a, b) == IF b = Zero THEN a ELSE BigDivMod(a, b)[2]

\* a << n and a >> n on uint64_t, for 0 <= n <= 30
U64Shl(a, n) == Wrap(BigShl(a, n))

U64Shr(a, n) == BigShr(a, n)
----------------------------------------------------------------------------
(* Program constants *)

PICOQUIC_CWIN_INITIAL == U64(15360)
PICOQUIC_CWIN_MINIMUM == U64(3072)
PICOQUIC_TARGET_RENO_RTT == U64(100000)
PICOQUIC_TARGET_SATELLITE_RTT == U64(610000)
PRAGUE_SHIFT_G == 4
UINT64_MAX == <<TopLimb - 1, Limb - 1, Limb - 1>>

picoquic_prague_alg_slow_start == 0
picoquic_prague_alg_congestion_avoidance == 1

NULL == "null"
PrState == "pr_state"
picoquic_packet_context_application == "app"
RemoteCnxid == "r_cid"

\* how a call ended: by returning, or with the process killed by a signal
NoSignal == "none"
SIGFPE == "SIGFPE"
SIGSEGV == "SIGSEGV"

\* what an integer division by zero does: the instruction traps (x86), or it
\* completes with quotient 0 (AArch64)
DivisionTraps == "trap"
DivisionYieldsZero == "zero"

----------------------------------------------------------------------------
(* Bounds of the model *)

MaxSteps == 3          \* steps of a behaviour of Spec
MaxRebindSteps == 6    \* steps of a behaviour of SpecRebind
MaxCaSteps == 6        \* steps of a behaviour of SpecCa
MaxUnsetSteps == 4     \* steps of a behaviour of SpecUnset
MaxTime == 600000      \* calls are explored while current_time <= MaxTime
MaxSeq == 2            \* packets sent per packet context
MaxMarks == 3          \* ECT0 + CE marks reported per packet context

(* Inputs of the calls *)

TimeSteps == {0, 150000}
SmoothedRtts == {50000, 150000}
SendMtus == {1536}
NbBytes == {0, 3000}
RttMins == {50000, 150000, 700000}
Bandwidths == {400000}
CaNbBytes == {0, 5, 10}
CaSendMtus == {1512, 1536}
HostCwins == {0, 15360}

----------------------------------------------------------------------------
(* Packet context selection, shared by enter_recovery and update_alpha *)

SelectPktCtx(mp, x) ==
    IF mp /\ x.p_remote_cnxid # NULL
    THEN x.p_remote_cnxid
    ELSE picoquic_packet_context_application

----------------------------------------------------------------------------
(* picoquic_prague_enter_recovery *)

RecoverySsthreshNoFloor(cwin) == U64Div(cwin, U64(2))

RecoverySsthresh(cwin) ==
    LET half == U64Div(cwin, U64(2))
    IN  IF U64Lt(half, PICOQUIC_CWIN_MINIMUM) THEN PICOQUIC_CWIN_MINIMUM ELSE half

RecoveryCwinOnePacket(notification, ssthresh) ==
    IF notification = "timeout" THEN U64Div(PICOQUIC_CWIN_MINIMUM, U64(2)) ELSE ssthresh

RecoveryCwin(notification, ssthresh) ==
    IF notification = "timeout" THEN PICOQUIC_CWIN_MINIMUM ELSE ssthresh

RecoveryAlgStateAlwaysAvoidance(notification) ==
    picoquic_prague_alg_congestion_avoidance

RecoveryAlgState(notification) ==
    IF notification = "timeout"
    THEN picoquic_prague_alg_slow_start
    ELSE picoquic_prague_alg_congestion_avoidance

picoquic_prague_enter_recovery(p, x, mp, ctxs, notification, current_time) ==
    LET ssthresh == RecoverySsthresh(x.cwin)
        pc == ctxs[SelectPktCtx(mp, x)]
    IN  [pr |-> [p EXCEPT !.ssthresh = ssthresh,
                          !.alg_state = RecoveryAlgState(notification),
                          !.recovery_start = current_time,
                          !.residual_ack = Zero,
                          !.l4s_epoch_send = pc.send_sequence,
                          !.l4s_epoch_ect0 = pc.ecn_ect0_total_remote,
                          !.l4s_epoch_ce = pc.ecn_ce_total_remote,
                          !.alpha = Zero,
                          !.alpha_shifted = Zero],
         path |-> [x EXCEPT !.cwin = RecoveryCwin(notification, ssthresh)]]

----------------------------------------------------------------------------
(* picoquic_prague_reset *)

picoquic_prague_reset_residual(p) ==
    [p EXCEPT !.acked_bytes_ecn = Zero, !.acked_bytes_total = Zero, !.residual_ack = Zero]

picoquic_prague_reset(p) ==
    [p EXCEPT !.acked_bytes_ecn = Zero, !.acked_bytes_total = Zero]

----------------------------------------------------------------------------
(* picoquic_prague_update_alpha *)

EpochClosed(path_packet_acked_number, l4s_epoch_send) ==
    U64Le(l4s_epoch_send, path_packet_acked_number)

\* the division of line 227 is made, and is by zero
FracDividesByZero(delta_ce, delta_ect0) ==
    delta_ce # Zero /\ U64Add(delta_ce, delta_ect0) = Zero

\* frac of lines 226-231, where the division does not trap
Frac(delta_ce, delta_ect0) ==
    IF delta_ce # Zero
    THEN U64Div(U64Mul(delta_ce, U64(1024)), U64Add(delta_ce, delta_ect0))
    ELSE Zero

FracSnaps(frac) == U64Lt(U64(512), frac)

SmoothedShiftedNoDecay(alpha_shifted, alpha, frac) == U64Add(alpha_shifted, frac)

SmoothedShifted(alpha_shifted, alpha, frac) ==
    U64Add(alpha_shifted, U64Sub(frac, alpha))

\* alpha_shifted after the update of lines 233-244
NewAlphaShifted(p, delta_ce, delta_ect0, frac) ==
    IF delta_ce # Zero \/ delta_ect0 # Zero
    THEN IF FracSnaps(frac)
         THEN U64Shl(frac, PRAGUE_SHIFT_G)
         ELSE SmoothedShifted(p.alpha_shifted, p.alpha, frac)
    ELSE p.alpha_shifted

NewAlphaShiftedOnSnap(p, delta_ce, delta_ect0, frac) ==
    IF delta_ce # Zero \/ delta_ect0 # Zero
    THEN IF FracSnaps(frac)
         THEN U64Shl(frac, PRAGUE_SHIFT_G)
         ELSE U64Shr(SmoothedShifted(p.alpha_shifted, p.alpha, frac), PRAGUE_SHIFT_G)
    ELSE p.alpha

\* alpha after the update of lines 233-244
NewAlpha(p, delta_ce, delta_ect0, frac) ==
    IF delta_ce # Zero \/ delta_ect0 # Zero
    THEN IF FracSnaps(frac)
         THEN frac
         ELSE U64Shr(SmoothedShifted(p.alpha_shifted, p.alpha, frac), PRAGUE_SHIFT_G)
    ELSE p.alpha

FullRecoveryDueFrom768(alpha) == U64Lt(U64(768), alpha)

FullRecoveryDueAboveOne(alpha) == U64Lt(U64(1024), alpha)

FullRecoveryDue(alpha) == U64Lt(U64(512), alpha)

ProportionalSsthresh(cwin, alpha) ==
    LET reduction == U64Div(U64Mul(cwin, alpha), U64(2048))
        ssthresh == U64Sub(cwin, reduction)
    IN  IF U64Lt(ssthresh, PICOQUIC_CWIN_MINIMUM) THEN PICOQUIC_CWIN_MINIMUM ELSE ssthresh

\* what a call went through: whether it closed an epoch, the fraction measured, alpha
\* and alpha_shifted as updated from it, whether it entered recovery or reduced the
\* window, and the window when picoquic_prague_update_alpha returned
NoTrace ==
    [closed |-> FALSE, frac |-> Zero, alpha_mid |-> Zero, shifted_mid |-> Zero,
     recovered |-> FALSE, reduced |-> FALSE, cwin_mid |-> Zero]

\* the end of a call that returned
Return(p, x, tr) == [pr |-> p, path |-> x, tr |-> tr, signal |-> NoSignal]

picoquic_prague_update_alpha(p, x, mp, ctxs, current_time, div0) ==
    LET pc == ctxs[SelectPktCtx(mp, x)]
        delta_ect0 == U64Sub(pc.ecn_ect0_total_remote, p.l4s_epoch_ect0)
        delta_ce == U64Sub(pc.ecn_ce_total_remote, p.l4s_epoch_ce)
        frac == Frac(delta_ce, delta_ect0)
        alpha == NewAlpha(p, delta_ce, delta_ect0, frac)
        alpha_shifted == NewAlphaShifted(p, delta_ce, delta_ect0, frac)
        p1 == [p EXCEPT !.alpha = alpha,
                        !.alpha_shifted = alpha_shifted,
                        !.l4s_epoch_send = pc.send_sequence,
                        !.l4s_epoch_ect0 = pc.ecn_ect0_total_remote,
                        !.l4s_epoch_ce = pc.ecn_ce_total_remote]
        tr == [closed |-> TRUE, frac |-> frac, alpha_mid |-> alpha,
               shifted_mid |-> alpha_shifted, recovered |-> FALSE, reduced |-> FALSE,
               cwin_mid |-> Zero]
    IN  IF ~EpochClosed(x.path_packet_acked_number, p.l4s_epoch_send)
        THEN Return(p, x, NoTrace)
        ELSE IF FracDividesByZero(delta_ce, delta_ect0) /\ div0 = DivisionTraps
        THEN [pr |-> [p EXCEPT !.l4s_epoch_send = pc.send_sequence],
              path |-> x,
              tr |-> [NoTrace EXCEPT !.closed = TRUE],
              signal |-> SIGFPE]
        ELSE IF delta_ce = Zero
        THEN Return(p1, x, tr)
        ELSE IF FullRecoveryDue(alpha)
        THEN LET r == picoquic_prague_enter_recovery(p1, x, mp, ctxs, "ecn_ec", current_time)
             IN  Return(r.pr, r.path, [tr EXCEPT !.recovered = TRUE])
        ELSE LET ssthresh == ProportionalSsthresh(x.cwin, alpha)
             IN  Return([p1 EXCEPT !.loss_cwnd = x.cwin,
                                   !.ssthresh = ssthresh,
                                   !.alg_state = picoquic_prague_alg_congestion_avoidance],
                        [x EXCEPT !.cwin = ssthresh],
                        [tr EXCEPT !.reduced = TRUE])

----------------------------------------------------------------------------
(* picoquic_prague_notify, one operator per case of the switch *)

\* window increment of the slow start case
SlowStartDelta(nb_bytes_acknowledged, smoothed_rtt, alpha) ==
    IF U64Le(smoothed_rtt, PICOQUIC_TARGET_RENO_RTT)
    THEN U64Div(U64Mul(nb_bytes_acknowledged, U64Sub(U64(1024), alpha)), U64(1024))
    ELSE U64Div(U64Div(U64Mul(U64Mul(nb_bytes_acknowledged, smoothed_rtt),
                              U64Sub(U64(1024), alpha)),
                       PICOQUIC_TARGET_RENO_RTT),
                U64(1024))

SlowStartExit(cwin, ssthresh) == U64Le(ssthresh, cwin)

CompleteDeltaNoCarry(nb_bytes_acknowledged, send_mtu, residual_ack) ==
    U64Mul(nb_bytes_acknowledged, send_mtu)

CompleteDelta(nb_bytes_acknowledged, send_mtu, residual_ack) ==
    U64Add(U64Mul(nb_bytes_acknowledged, send_mtu), residual_ack)

\* window increment of the congestion avoidance case
CongestionAvoidanceDelta(complete_delta, cwin, alpha) ==
    U64Div(U64Mul(U64Div(complete_delta, cwin), U64Sub(U64(1024), alpha)), U64(1024))

\* the congestion avoidance case divides by a window of zero (line 320)
GrowthDividesByZero(p, x) ==
    p.alg_state # picoquic_prague_alg_slow_start /\ x.cwin = Zero

AckGrowth(p, x, in, div0) ==
    IF p.alg_state = picoquic_prague_alg_slow_start
    THEN LET cwin == U64Add(x.cwin, SlowStartDelta(in.nb_bytes_acknowledged,
                                                   in.smoothed_rtt, p.alpha))
         IN  [pr |-> [p EXCEPT !.alg_state =
                          IF SlowStartExit(cwin, p.ssthresh)
                          THEN picoquic_prague_alg_congestion_avoidance
                          ELSE p.alg_state],
              path |-> [x EXCEPT !.cwin = cwin],
              signal |-> NoSignal]
    ELSE IF GrowthDividesByZero(p, x) /\ div0 = DivisionTraps
    THEN [pr |-> p, path |-> x, signal |-> SIGFPE]
    ELSE LET complete_delta ==
                 CompleteDelta(in.nb_bytes_acknowledged, in.send_mtu, p.residual_ack)
         IN  [pr |-> [p EXCEPT !.residual_ack = U64Mod(complete_delta, x.cwin)],
              path |-> [x EXCEPT !.cwin =
                           U64Add(x.cwin,
                                  CongestionAvoidanceDelta(complete_delta, x.cwin, p.alpha))],
              signal |-> NoSignal]

NotifyAcknowledgementCase(p, x, mp, ctxs, in, current_time, div0) ==
    LET p0 == [p EXCEPT !.acked_bytes_total = U64Add(p.acked_bytes_total,
                                                     in.nb_bytes_acknowledged)]
        u == picoquic_prague_update_alpha(p0, x, mp, ctxs, current_time, div0)
        g == AckGrowth(u.pr, u.path, in, div0)
    IN  IF u.signal # NoSignal
        THEN u
        ELSE [pr |-> g.pr, path |-> g.path,
              tr |-> [u.tr EXCEPT !.cwin_mid = u.path.cwin],
              signal |-> g.signal]

InitialSlowStartAnySsthresh(p) ==
    p.alg_state = picoquic_prague_alg_slow_start

InitialSlowStart(p) ==
    p.alg_state = picoquic_prague_alg_slow_start /\ p.ssthresh = UINT64_MAX

EcnEcCwin(cwin, send_mtu) ==
    IF U64Lt(send_mtu, cwin) THEN U64Sub(cwin, send_mtu) ELSE cwin

NotifyEcnEcCase(p, x, in) ==
    IF InitialSlowStart(p)
    THEN LET cwin == EcnEcCwin(x.cwin, in.send_mtu)
         IN  Return([p EXCEPT !.ssthresh = cwin,
                              !.alg_state = picoquic_prague_alg_congestion_avoidance],
                    [x EXCEPT !.cwin = cwin, !.is_ssthresh_initialized = 1],
                    NoTrace)
    ELSE Return(p, x, NoTrace)

RecoveryDueAtOneRtt(current_time, recovery_start, smoothed_rtt) ==
    U64Le(smoothed_rtt, U64Sub(current_time, recovery_start))

RecoveryDue(current_time, recovery_start, smoothed_rtt) ==
    U64Lt(smoothed_rtt, U64Sub(current_time, recovery_start))

NotifyLossCase(p, x, mp, ctxs, notification, in, current_time) ==
    IF RecoveryDue(current_time, p.recovery_start, in.smoothed_rtt)
    THEN LET r == picoquic_prague_enter_recovery(p, x, mp, ctxs, notification, current_time)
         IN  Return(r.pr, r.path, [NoTrace EXCEPT !.recovered = TRUE])
    ELSE Return(p, x, NoTrace)

SpuriousInRecovery(current_time, recovery_start, smoothed_rtt) ==
    U64Lt(U64Sub(current_time, recovery_start), smoothed_rtt)

\* 2 * pr_state->ssthresh of lines 353-354
DoubleSsthresh(ssthresh) == U64Mul(U64(2), ssthresh)

NotifySpuriousRepeatCase(p, x, in, current_time) ==
    IF SpuriousInRecovery(current_time, p.recovery_start, in.smoothed_rtt)
       /\ U64Lt(x.cwin, DoubleSsthresh(p.ssthresh))
    THEN Return([p EXCEPT !.alg_state = picoquic_prague_alg_congestion_avoidance],
                [x EXCEPT !.cwin = DoubleSsthresh(p.ssthresh)],
                NoTrace)
    ELSE Return(p, x, NoTrace)

\* (uint64_t)((double)PICOQUIC_CWIN_INITIAL * (double)rtt / (double)PICOQUIC_TARGET_RENO_RTT):
\* rtt is at most PICOQUIC_TARGET_SATELLITE_RTT here, the product is exact in a
\* double and the quotient is truncated
RttMinWin(rtt_min) ==
    IF U64Lt(PICOQUIC_TARGET_SATELLITE_RTT, rtt_min)
    THEN U64Div(U64Mul(PICOQUIC_CWIN_INITIAL, PICOQUIC_TARGET_SATELLITE_RTT),
                PICOQUIC_TARGET_RENO_RTT)
    ELSE U64Div(U64Mul(PICOQUIC_CWIN_INITIAL, rtt_min), PICOQUIC_TARGET_RENO_RTT)

RttCwin(cwin, rtt_min) ==
    IF U64Lt(PICOQUIC_TARGET_RENO_RTT, rtt_min) /\ U64Lt(cwin, RttMinWin(rtt_min))
    THEN RttMinWin(rtt_min)
    ELSE cwin

\* in.hystart is the verdict of picoquic_hystart_test, a routine of cc_common
NotifyRttMeasurementCase(p, x, in) ==
    IF InitialSlowStart(p)
    THEN LET cwin == RttCwin(x.cwin, in.rtt_min)
         IN  IF in.hystart
             THEN Return([p EXCEPT !.ssthresh = cwin,
                                   !.alg_state = picoquic_prague_alg_congestion_avoidance],
                         [x EXCEPT !.cwin = cwin, !.is_ssthresh_initialized = 1],
                         NoTrace)
             ELSE Return(p, [x EXCEPT !.cwin = cwin], NoTrace)
    ELSE Return(p, x, NoTrace)

BwMinWin(max_bandwidth_estimate, smoothed_rtt) ==
    U64Div(U64Div(U64Mul(max_bandwidth_estimate, smoothed_rtt), U64(1000000)), U64(2))

NotifyBwMeasurementCaseAssign(p, x, in) ==
    IF InitialSlowStart(p)
    THEN Return(p,
                [x EXCEPT !.cwin = BwMinWin(in.max_bandwidth_estimate, in.smoothed_rtt)],
                NoTrace)
    ELSE Return(p, x, NoTrace)

NotifyBwMeasurementCase(p, x, in) ==
    IF InitialSlowStart(p)
       /\ U64Lt(x.cwin, BwMinWin(in.max_bandwidth_estimate, in.smoothed_rtt))
    THEN Return(p,
                [x EXCEPT !.cwin = BwMinWin(in.max_bandwidth_estimate, in.smoothed_rtt)],
                NoTrace)
    ELSE Return(p, x, NoTrace)

NotifyOtherCaseReset(p, x) == Return(picoquic_prague_reset(p), x, NoTrace)

\* default: ignore
NotifyOtherCase(p, x) == Return(p, x, NoTrace)

\* Without private state the switch is skipped (line 291) and line 410 reads
\* pr_state->alg_state through the null pointer: the access faults.
picoquic_prague_notify(p, x, mp, ctxs, notification, in, current_time, div0) ==
    IF x.congestion_alg_state = NULL
    THEN [pr |-> p, path |-> x, tr |-> NoTrace, signal |-> SIGSEGV]
    ELSE CASE notification = "acknowledgement" ->
                  NotifyAcknowledgementCase(p, x, mp, ctxs, in, current_time, div0)
           [] notification = "ecn_ec" -> NotifyEcnEcCase(p, x, in)
           [] notification \in {"repeat", "timeout"} ->
                  NotifyLossCase(p, x, mp, ctxs, notification, in, current_time)
           [] notification = "spurious_repeat" ->
                  NotifySpuriousRepeatCase(p, x, in, current_time)
           [] notification = "rtt_measurement" -> NotifyRttMeasurementCase(p, x, in)
           [] notification = "bw_measurement" -> NotifyBwMeasurementCase(p, x, in)
           [] notification = "reset" -> Return(picoquic_prague_reset(p), x, NoTrace)
           [] OTHER -> NotifyOtherCase(p, x)

----------------------------------------------------------------------------
(* picoquic_prague_observe; without private state the read of line 428 faults *)

NoOutput == [cc_state |-> 0, cc_param |-> Zero]

picoquic_prague_observe_raw(p, x) ==
    [out |-> [cc_state |-> p.alg_state, cc_param |-> p.ssthresh], signal |-> NoSignal]

picoquic_prague_observe(p, x) ==
    IF x.congestion_alg_state = NULL
    THEN [out |-> NoOutput, signal |-> SIGSEGV]
    ELSE [out |-> [cc_state |-> p.alg_state,
                   cc_param |-> IF p.ssthresh = UINT64_MAX THEN Zero ELSE p.ssthresh],
          signal |-> NoSignal]

----------------------------------------------------------------------------
(* picoquic_prague_init and picoquic_prague_delete *)

\* the private state after the memset and the assignments of lines 140-144
InitialState ==
    [alg_state |-> picoquic_prague_alg_slow_start,
     alpha_shifted |-> Zero,
     alpha |-> Zero,
     acked_bytes_ecn |-> Zero,
     acked_bytes_total |-> Zero,
     loss_cwnd |-> Zero,
     residual_ack |-> Zero,
     ssthresh |-> UINT64_MAX,
     recovery_start |-> Zero,
     l4s_epoch_send |-> Zero,
     l4s_epoch_ect0 |-> Zero,
     l4s_epoch_ce |-> Zero]

\* the value pr holds while the path has no private state
NoState == [InitialState EXCEPT !.ssthresh = Zero]

\* malloc_ok: malloc returned a block
picoquic_prague_init(x, malloc_ok) ==
    IF malloc_ok
    THEN [pr |-> InitialState,
          path |-> [x EXCEPT !.congestion_alg_state = PrState,
                             !.cwin = PICOQUIC_CWIN_INITIAL]]
    ELSE [pr |-> NoState, path |-> [x EXCEPT !.congestion_alg_state = NULL]]

picoquic_prague_delete(p, x) ==
    IF x.congestion_alg_state # NULL
    THEN [pr |-> NoState, path |-> [x EXCEPT !.congestion_alg_state = NULL]]
    ELSE [pr |-> p, path |-> x]

----------------------------------------------------------------------------
(* The state after picoquic_prague_init on a new path *)

PktCtxIds == {picoquic_packet_context_application, RemoteCnxid}

NoInput ==
    [nb_bytes_acknowledged |-> Zero, smoothed_rtt |-> Zero, send_mtu |-> Zero,
     rtt_min |-> Zero, max_bandwidth_estimate |-> Zero, hystart |-> FALSE]

HostStep == [kind |-> "host", in |-> NoInput, cwin_in |-> Zero,
             recovery_start_in |-> Zero, tr |-> NoTrace,
             out |-> NoOutput, unpaced |-> FALSE]

NoRun == [open |-> FALSE, cwin |-> Zero, alpha |-> Zero, sum |-> Zero, n |-> 0]

\* a path as the host creates it, with the window the host gave it
NewPath(cwin) ==
    [cwin |-> U64(cwin),
     is_ssthresh_initialized |-> 0,
     p_remote_cnxid |-> RemoteCnxid,
     path_packet_acked_number |-> Zero,
     congestion_alg_state |-> NULL]

Init ==
    /\ \E malloc_ok \in BOOLEAN, cwin \in HostCwins :
       \E r \in {picoquic_prague_init(NewPath(cwin), malloc_ok)} :
           pr = r.pr /\ path = r.path
    /\ is_multipath_enabled \in BOOLEAN
    /\ pkt_ctx = [c \in PktCtxIds |->
                     [send_sequence |-> Zero,
                      ecn_ect0_total_remote |-> Zero,
                      ecn_ce_total_remote |-> Zero]]
    /\ now = 0
    /\ signal = NoSignal
    /\ ev = [HostStep EXCEPT !.kind = "init"]
    /\ run = NoRun
    /\ steps = 0

----------------------------------------------------------------------------
(* The host: packets sent and acknowledged, ECN counts reported, on the      *)
(* packet context the path uses                                              *)

ActiveCtx == SelectPktCtx(is_multipath_enabled, path)

Host(budget) ==
    /\ signal = NoSignal
    /\ steps < budget
    /\ steps' = steps + 1
    /\ ev' = HostStep
    /\ UNCHANGED <<pr, is_multipath_enabled, now, signal, run>>

PacketSent(budget) ==
    /\ U64Lt(pkt_ctx[ActiveCtx].send_sequence, U64(MaxSeq))
    /\ pkt_ctx' = [pkt_ctx EXCEPT ![ActiveCtx].send_sequence = U64Add(@, One)]
    /\ UNCHANGED path
    /\ Host(budget)

PacketAcknowledged(budget) ==
    /\ U64Lt(U64Add(path.path_packet_acked_number, One), pkt_ctx[ActiveCtx].send_sequence)
    /\ path' = [path EXCEPT !.path_packet_acked_number = U64Add(@, One)]
    /\ UNCHANGED pkt_ctx
    /\ Host(budget)

Ect0Counted(budget) ==
    /\ U64Lt(U64Add(pkt_ctx[ActiveCtx].ecn_ect0_total_remote,
                    pkt_ctx[ActiveCtx].ecn_ce_total_remote), U64(MaxMarks))
    /\ pkt_ctx' = [pkt_ctx EXCEPT ![ActiveCtx].ecn_ect0_total_remote = U64Add(@, One)]
    /\ UNCHANGED path
    /\ Host(budget)

CeCounted(budget) ==
    /\ U64Lt(U64Add(pkt_ctx[ActiveCtx].ecn_ect0_total_remote,
                    pkt_ctx[ActiveCtx].ecn_ce_total_remote), U64(MaxMarks))
    /\ pkt_ctx' = [pkt_ctx EXCEPT ![ActiveCtx].ecn_ce_total_remote = U64Add(@, One)]
    /\ UNCHANGED path
    /\ Host(budget)

\* the path's remote connection id is assigned, retired or replaced
RemoteCnxidSet(budget) ==
    /\ is_multipath_enabled
    /\ path' = [path EXCEPT !.p_remote_cnxid = IF @ = NULL THEN RemoteCnxid ELSE NULL]
    /\ UNCHANGED pkt_ctx
    /\ Host(budget)

----------------------------------------------------------------------------
(* Calls of the four entry points *)

\* picoquic_prague_init on the path, with or without private state
Initialise(budget) ==
    /\ signal = NoSignal
    /\ steps < budget
    /\ \E malloc_ok \in BOOLEAN :
       \E r \in {picoquic_prague_init(path, malloc_ok)} :
           pr' = r.pr /\ path' = r.path
    /\ ev' = [HostStep EXCEPT !.kind = "init", !.cwin_in = path.cwin]
    /\ run' = NoRun
    /\ steps' = steps + 1
    /\ UNCHANGED <<is_multipath_enabled, pkt_ctx, now, signal>>

Delete(budget) ==
    /\ signal = NoSignal
    /\ steps < budget
    /\ \E r \in {picoquic_prague_delete(pr, path)} :
           pr' = r.pr /\ path' = r.path
    /\ ev' = [HostStep EXCEPT !.kind = "delete", !.cwin_in = path.cwin]
    /\ run' = NoRun
    /\ steps' = steps + 1
    /\ UNCHANGED <<is_multipath_enabled, pkt_ctx, now, signal>>

\* the run of acknowledgements after a call that took state p, x to r
RunAfter(p, r, notification, in) ==
    IF /\ notification = "acknowledgement"
       /\ run.open
       /\ r.signal = NoSignal
       /\ ~r.tr.recovered /\ ~r.tr.reduced
       /\ r.pr.alpha = p.alpha
    THEN [run EXCEPT !.sum = U64Add(@, U64Mul(in.nb_bytes_acknowledged, in.send_mtu)),
                     !.n = @ + 1]
    ELSE [open |-> /\ r.signal = NoSignal
                   /\ r.path.congestion_alg_state # NULL
                   /\ r.pr.alg_state = picoquic_prague_alg_congestion_avoidance
                   /\ r.pr.residual_ack = Zero,
          cwin |-> r.path.cwin, alpha |-> r.pr.alpha, sum |-> Zero, n |-> 0]

\* the outcomes of a division by zero, for a call that meets one when it traps
DivisionOutcomes(trapped) ==
    IF trapped.signal = SIGFPE
    THEN {DivisionTraps, DivisionYieldsZero}
    ELSE {DivisionTraps}

Notify(budget, notification, in, dt) ==
    /\ signal = NoSignal
    /\ steps < budget
    /\ now + dt <= MaxTime
    /\ \E trapped \in {picoquic_prague_notify(pr, path, is_multipath_enabled, pkt_ctx,
                                             notification, in, U64(now + dt),
                                             DivisionTraps)} :
       \E div0 \in DivisionOutcomes(trapped) :
       \E r \in {IF div0 = DivisionTraps
                 THEN trapped
                 ELSE picoquic_prague_notify(pr, path, is_multipath_enabled, pkt_ctx,
                                             notification, in, U64(now + dt), div0)} :
           /\ pr' = r.pr
           /\ path' = r.path
           /\ signal' = r.signal
           /\ ev' = [kind |-> notification, in |-> in, cwin_in |-> path.cwin,
                     recovery_start_in |-> pr.recovery_start, tr |-> r.tr, out |-> NoOutput,
                     unpaced |-> r.signal = NoSignal /\ InitialSlowStart(r.pr)]
           /\ run' = RunAfter(pr, r, notification, in)
    /\ now' = now + dt
    /\ steps' = steps + 1
    /\ UNCHANGED <<is_multipath_enabled, pkt_ctx>>

NotifyAcknowledgement(budget, dts, sizes, srtts, mtus) ==
    \E dt \in dts, nb \in sizes, srtt \in srtts, mtu \in mtus :
        Notify(budget, "acknowledgement",
               [NoInput EXCEPT !.nb_bytes_acknowledged = U64(nb),
                               !.smoothed_rtt = U64(srtt),
                               !.send_mtu = U64(mtu)], dt)

\* the calls that do not read current_time are made at the time of the last call
NotifyEcnEc(budget, mtus) ==
    \E mtu \in mtus :
        Notify(budget, "ecn_ec", [NoInput EXCEPT !.send_mtu = U64(mtu)], 0)

NotifyRepeat(budget, dts, srtts) ==
    \E dt \in dts, srtt \in srtts :
        Notify(budget, "repeat", [NoInput EXCEPT !.smoothed_rtt = U64(srtt)], dt)

NotifyTimeout(budget, dts, srtts) ==
    \E dt \in dts, srtt \in srtts :
        Notify(budget, "timeout", [NoInput EXCEPT !.smoothed_rtt = U64(srtt)], dt)

NotifySpuriousRepeat(budget, dts, srtts) ==
    \E dt \in dts, srtt \in srtts :
        Notify(budget, "spurious_repeat", [NoInput EXCEPT !.smoothed_rtt = U64(srtt)], dt)

NotifyRttMeasurement(budget, rtt_mins, verdicts) ==
    \E rtt_min \in rtt_mins, verdict \in verdicts :
        Notify(budget, "rtt_measurement",
               [NoInput EXCEPT !.rtt_min = U64(rtt_min), !.hystart = verdict], 0)

NotifyBwMeasurement(budget, bws, srtts) ==
    \E bw \in bws, srtt \in srtts :
        Notify(budget, "bw_measurement",
               [NoInput EXCEPT !.max_bandwidth_estimate = U64(bw),
                               !.smoothed_rtt = U64(srtt)], 0)

NotifyReset(budget) == Notify(budget, "reset", NoInput, 0)

NotifyOther(budget) == Notify(budget, "cwin_blocked", NoInput, 0)

Observe(budget) ==
    /\ signal = NoSignal
    /\ steps < budget
    /\ steps' = steps + 1
    /\ \E o \in {picoquic_prague_observe(pr, path)} :
           /\ ev' = [HostStep EXCEPT !.kind = "observe", !.out = o.out]
           /\ signal' = o.signal
    /\ UNCHANGED <<pr, path, is_multipath_enabled, pkt_ctx, now, run>>

----------------------------------------------------------------------------
(* Specifications *)

Next ==
    \/ PacketSent(MaxSteps)
    \/ PacketAcknowledged(MaxSteps)
    \/ Ect0Counted(MaxSteps)
    \/ CeCounted(MaxSteps)
    \/ Initialise(MaxSteps)
    \/ Delete(MaxSteps)
    \/ NotifyAcknowledgement(MaxSteps, TimeSteps, NbBytes, SmoothedRtts, SendMtus)
    \/ NotifyEcnEc(MaxSteps, SendMtus)
    \/ NotifyRepeat(MaxSteps, TimeSteps, SmoothedRtts)
    \/ NotifyTimeout(MaxSteps, TimeSteps, SmoothedRtts)
    \/ NotifySpuriousRepeat(MaxSteps, TimeSteps, SmoothedRtts)
    \/ NotifyRttMeasurement(MaxSteps, RttMins, BOOLEAN)
    \/ NotifyBwMeasurement(MaxSteps, Bandwidths, SmoothedRtts)
    \/ NotifyReset(MaxSteps)
    \/ NotifyOther(MaxSteps)
    \/ Observe(MaxSteps)

Spec == Init /\ [][Next]_vars

\* Under multipath, with the remote connection id of the path changing
NextRebind ==
    \/ PacketSent(MaxRebindSteps)
    \/ PacketAcknowledged(MaxRebindSteps)
    \/ Ect0Counted(MaxRebindSteps)
    \/ CeCounted(MaxRebindSteps)
    \/ RemoteCnxidSet(MaxRebindSteps)
    \/ Initialise(MaxRebindSteps)
    \/ Delete(MaxRebindSteps)
    \/ NotifyAcknowledgement(MaxRebindSteps, {0}, {0}, {50000}, SendMtus)

SpecRebind == Init /\ [][NextRebind]_vars

\* Acknowledgements of a few bytes, to follow the residual of congestion avoidance
NextCa ==
    \/ Ect0Counted(MaxCaSteps)
    \/ CeCounted(MaxCaSteps)
    \/ Initialise(MaxCaSteps)
    \/ Delete(MaxCaSteps)
    \/ NotifyRttMeasurement(MaxCaSteps, {50000}, {TRUE})
    \/ NotifyAcknowledgement(MaxCaSteps, {0}, CaNbBytes, {50000}, CaSendMtus)

SpecCa == Init /\ [][NextCa]_vars


\* Acknowledgements and ECN marks on the window a spurious repeat leaves
NextUnset ==
    \/ Ect0Counted(MaxUnsetSteps)
    \/ CeCounted(MaxUnsetSteps)
    \/ Initialise(MaxUnsetSteps)
    \/ Delete(MaxUnsetSteps)
    \/ NotifySpuriousRepeat(MaxUnsetSteps, {0}, {50000})
    \/ NotifyAcknowledgement(MaxUnsetSteps, {0}, {3000}, {50000}, SendMtus)

SpecUnset == Init /\ [][NextUnset]_vars

----------------------------------------------------------------------------
(* Properties. The quantities they speak of are computed in integers, without   *)
(* the reduction modulo 2^64 of the program's arithmetic.                    *)

IsLoss(e) == e.kind \in {"repeat", "timeout"}

\* the path has its private state: picoquic_prague_init succeeded and
\* picoquic_prague_delete was not called since
Live == path.congestion_alg_state # NULL

\* the time from recovery_start to a call at time t
SinceRecovery(t) == U64Sub(U64(t), pr.recovery_start)

\* the CE and ECT0 marks counted since the epoch markers, for counters and markers
\* below 2^30
CountersSmall ==
    /\ BigSmall(pkt_ctx[ActiveCtx].ecn_ce_total_remote, pr.l4s_epoch_ce)
    /\ BigSmall(pkt_ctx[ActiveCtx].ecn_ect0_total_remote, pr.l4s_epoch_ect0)

DeltaCe == pkt_ctx[ActiveCtx].ecn_ce_total_remote[3] - pr.l4s_epoch_ce[3]

DeltaEct0 == pkt_ctx[ActiveCtx].ecn_ect0_total_remote[3] - pr.l4s_epoch_ect0[3]

\* delta_ce * 1024 / (delta_ce + delta_ect0), 0 without CE marks
MarkedFraction ==
    IF DeltaCe > 0 THEN (DeltaCe * 1024) \div (DeltaCe + DeltaEct0) ELSE 0

\* max(cwin / 2, PICOQUIC_CWIN_MINIMUM)
HalfWindow(cwin) == BigMax(BigShr(cwin, 1), PICOQUIC_CWIN_MINIMUM)

\* a * y / d for a limb y, in integers
MulDiv(a, y, d) == BigDivMod(BigMul(a, y), U64(d))[1]

\* C1: alpha stays within [0, 1024], at the end of every call and as updated in the
\* middle of an epoch closure (before a recovery entry resets it), as long as the
\* ECT0 and CE counters read by the closures do not decrease.
C1_AlphaInRange ==
    /\ U64Le(pr.alpha, U64(1024))
    /\ U64Le(ev.tr.alpha_mid, U64(1024))

\* an acknowledgement closed an epoch of CE marks only: alpha went to 1024 and back to 0
C1_Witness ==
    /\ ev.kind = "acknowledgement" /\ ev.tr.closed
    /\ ev.tr.alpha_mid = U64(1024) /\ pr.alpha = Zero

\* C2: on a path that has its private state, the congestion window is never below
\* PICOQUIC_CWIN_MINIMUM, hence never zero.
C2_CwinAtLeastMinimum ==
    Live => /\ U64Le(PICOQUIC_CWIN_MINIMUM, path.cwin)
            /\ path.cwin # Zero

\* a timeout has put the window on the floor
C2_Witness ==
    /\ ev.kind = "timeout" /\ ev.tr.recovered
    /\ path.cwin = PICOQUIC_CWIN_MINIMUM

\* C3: once set, ssthresh is at least PICOQUIC_CWIN_MINIMUM.
C3_SsthreshAtLeastMinimum ==
    (Live /\ pr.ssthresh # UINT64_MAX) => U64Le(PICOQUIC_CWIN_MINIMUM, pr.ssthresh)

\* a direct ECN-CE notification has set ssthresh to the window less one segment
C3_Witness ==
    /\ ev.kind = "ecn_ec"
    /\ pr.ssthresh # UINT64_MAX
    /\ pr.ssthresh = path.cwin
    /\ U64Lt(path.cwin, PICOQUIC_CWIN_INITIAL)

\* C4 as stated: of two successive Loss notifications no more than one smoothed RTT
\* apart exactly one enters recovery, and a Loss or Timeout no more than one smoothed
\* RTT after recovery_start changes nothing.
C4_ExactlyOneEntry ==
    [][/\ (ev.kind = "repeat" /\ ev'.kind = "repeat"
             /\ U64Le(U64(now' - now), ev'.in.smoothed_rtt))
            => (ev.tr.recovered # ev'.tr.recovered)
       /\ (Live /\ IsLoss(ev') /\ U64Le(SinceRecovery(now'), ev'.in.smoothed_rtt))
            => (pr' = pr /\ path' = path)]_vars

\* the number of recovery entries of the last call and of the one being made
EntriesOfTwo(first, second) ==
    (IF first.tr.recovered THEN 1 ELSE 0) + (IF second.tr.recovered THEN 1 ELSE 0)

\* C4 as amended: a Loss or Timeout enters recovery exactly when it arrives more than
\* one smoothed RTT after recovery_start, and otherwise changes nothing; of two
\* successive Loss notifications no more than one smoothed RTT apart, exactly one
\* enters recovery when either of them arrives more than one smoothed RTT after the
\* recovery_start the first one found (the first if it does, and then not the second;
\* otherwise the second), and none does when both arrive within it.
C4_EntryOutsideCooldown ==
    [][/\ (Live /\ IsLoss(ev'))
            => (ev'.tr.recovered
                  <=> U64Lt(ev'.in.smoothed_rtt, SinceRecovery(now')))
       /\ (Live /\ IsLoss(ev') /\ U64Le(SinceRecovery(now'), ev'.in.smoothed_rtt))
            => (pr' = pr /\ path' = path)
       /\ (Live /\ ev.kind = "repeat" /\ ev'.kind = "repeat"
             /\ U64Le(U64(now' - now), ev'.in.smoothed_rtt))
            => /\ ev.tr.recovered
                    <=> U64Lt(ev.in.smoothed_rtt,
                              U64Sub(U64(now), ev.recovery_start_in))
               /\ ev.tr.recovered => ~ev'.tr.recovered
               /\ ~ev.tr.recovered
                    => (ev'.tr.recovered
                          <=> U64Lt(ev'.in.smoothed_rtt,
                                    U64Sub(U64(now'), ev.recovery_start_in)))
               /\ EntriesOfTwo(ev, ev')
                    = IF \/ U64Lt(ev.in.smoothed_rtt,
                                  U64Sub(U64(now), ev.recovery_start_in))
                         \/ U64Lt(ev'.in.smoothed_rtt,
                                  U64Sub(U64(now'), ev.recovery_start_in))
                      THEN 1
                      ELSE 0]_vars

\* a Loss exactly one smoothed RTT after a recovery entry was left without effect
C4_Witness ==
    /\ ev.kind = "repeat" /\ ~ev.tr.recovered
    /\ pr.recovery_start # Zero
    /\ SinceRecovery(now) = ev.in.smoothed_rtt
    /\ path.cwin = pr.ssthresh

\* C5: a Loss or Timeout more than one smoothed RTT after recovery_start enters
\* recovery: ssthresh is half the previous window, floored; a Timeout puts the window
\* on the floor in slow start, a Loss puts it at ssthresh in congestion avoidance;
\* recovery_start is the time of the call, residual_ack, alpha and alpha_shifted are
\* zero and the epoch markers are those of the packet context.
C5_RecoveryEntry ==
    [][(Live /\ IsLoss(ev') /\ U64Lt(ev'.in.smoothed_rtt, SinceRecovery(now'))) =>
         /\ signal' = NoSignal
         /\ ev'.tr.recovered
         /\ pr'.ssthresh = HalfWindow(path.cwin)
         /\ ev'.kind = "timeout" =>
                /\ path'.cwin = PICOQUIC_CWIN_MINIMUM
                /\ pr'.alg_state = picoquic_prague_alg_slow_start
         /\ ev'.kind = "repeat" =>
                /\ path'.cwin = pr'.ssthresh
                /\ pr'.alg_state = picoquic_prague_alg_congestion_avoidance
         /\ pr'.recovery_start = U64(now')
         /\ pr'.residual_ack = Zero /\ pr'.alpha = Zero /\ pr'.alpha_shifted = Zero
         /\ pr'.l4s_epoch_send = pkt_ctx[ActiveCtx].send_sequence
         /\ pr'.l4s_epoch_ect0 = pkt_ctx[ActiveCtx].ecn_ect0_total_remote
         /\ pr'.l4s_epoch_ce = pkt_ctx[ActiveCtx].ecn_ce_total_remote]_vars

\* a timeout on the initial window, with packets sent in the epoch
C5_Witness ==
    /\ ev.kind = "timeout" /\ ev.tr.recovered
    /\ pr.ssthresh = U64(7680)
    /\ path.cwin = PICOQUIC_CWIN_MINIMUM
    /\ pr.alg_state = picoquic_prague_alg_slow_start
    /\ pr.recovery_start = U64(now) /\ now > 0
    /\ pr.l4s_epoch_send # Zero

\* C6: a Reset zeroes the byte counters and changes nothing else, and what an
\* acknowledgement does to the window, alpha, ssthresh and the state is what it does
\* from the same state with the byte counters at zero.
C6_ResetIsolation ==
    [][/\ (Live /\ ev'.kind = "reset") =>
            /\ signal' = NoSignal
            /\ pr' = [pr EXCEPT !.acked_bytes_ecn = Zero, !.acked_bytes_total = Zero]
            /\ path' = path
       /\ (ev'.kind = "acknowledgement" /\ signal' = NoSignal) =>
            \E z \in {picoquic_prague_notify(
                          [pr EXCEPT !.acked_bytes_ecn = Zero, !.acked_bytes_total = Zero],
                          path, is_multipath_enabled, pkt_ctx, "acknowledgement",
                          ev'.in, U64(now'), DivisionYieldsZero)} :
                /\ z.signal = NoSignal
                /\ path'.cwin = z.path.cwin
                /\ pr'.alpha = z.pr.alpha
                /\ pr'.ssthresh = z.pr.ssthresh
                /\ pr'.alg_state = z.pr.alg_state
                /\ pr'.residual_ack = z.pr.residual_ack]_vars

\* two acknowledgements of 3000 bytes in slow start with a reset between them
C6_Witness ==
    /\ ev.kind = "acknowledgement"
    /\ pr.acked_bytes_total = U64(3000)
    /\ path.cwin = U64(21360)

\* C7 as stated: the epoch send-sequence marker never decreases from one epoch
\* closure to the next, the marker being read at each closure from the packet
\* context selected for the call.
C7_EpochSendMonotone ==
    [][(ev'.kind = "acknowledgement" /\ ev'.tr.closed)
          => U64Le(pr.l4s_epoch_send, pr'.l4s_epoch_send)]_vars

\* a closure read its marker from the application context after the path lost its
\* remote connection id, below the marker of the closure before it
C7_Witness ==
    /\ ev.kind = "acknowledgement" /\ ev.tr.closed
    /\ path.p_remote_cnxid = NULL
    /\ pr.l4s_epoch_send = Zero
    /\ U64Le(One, path.path_packet_acked_number)
    /\ U64Le(One, pkt_ctx[RemoteCnxid].send_sequence)

\* C8: when an acknowledgement closes an epoch whose CE fraction is above 512, alpha
\* becomes that fraction and alpha_shifted sixteen times it, and recovery is entered
\* in the same call whatever the time since recovery_start: ssthresh is half the
\* window, floored, the window is ssthresh, the state is congestion avoidance and
\* recovery_start is the time of the call.
C8_SnapAndRecover ==
    [][(/\ ev'.kind = "acknowledgement" /\ ev'.tr.closed
        /\ CountersSmall
        /\ DeltaCe > 0 /\ DeltaEct0 >= 0
        /\ MarkedFraction > 512) =>
           /\ signal' = NoSignal
           /\ ev'.tr.frac = U64(MarkedFraction)
           /\ ev'.tr.alpha_mid = ev'.tr.frac
           /\ ev'.tr.shifted_mid = U64(MarkedFraction * 16)
           /\ ev'.tr.recovered
           /\ pr'.ssthresh = HalfWindow(path.cwin)
           /\ ev'.tr.cwin_mid = pr'.ssthresh
           /\ pr'.alg_state = picoquic_prague_alg_congestion_avoidance
           /\ pr'.recovery_start = U64(now')]_vars

\* two CE marks and one ECT0 mark closed an epoch at fraction 682
C8_Witness ==
    /\ ev.kind = "acknowledgement" /\ ev.tr.closed
    /\ ev.tr.frac = U64(682) /\ ev.tr.alpha_mid = U64(682)
    /\ ev.tr.shifted_mid = U64(10912)
    /\ ev.tr.recovered
    /\ pr.alpha = Zero
    /\ pr.alg_state = picoquic_prague_alg_congestion_avoidance
    /\ pr.recovery_start = U64(now)

\* C9 as stated: in congestion avoidance, after a run of acknowledgements with no
\* reduction and alpha constant whose bytes times segment size add up to the window,
\* the window has grown by segment size * (1024 - alpha) / 1024 and residual_ack is 0.
C9_GrowthBySegment ==
    (/\ ev.kind = "acknowledgement"
     /\ run.open /\ run.n > 0 /\ run.sum = run.cwin
     /\ BigSmall(run.alpha, ev.in.send_mtu) /\ run.alpha[3] <= 1024) =>
        /\ path.cwin = BigAdd(run.cwin,
                              U64((ev.in.send_mtu[3] * (1024 - run.alpha[3])) \div 1024))
        /\ pr.residual_ack = Zero

\* C9 as amended: in congestion avoidance, after a run of acknowledgements with no
\* reduction and alpha constant that started with residual_ack at 0 and whose bytes
\* times segment size add up to the window at its start, the window has grown by
\* (1024 - alpha) / 1024 rounded down (one byte when alpha is 0, nothing otherwise)
\* and residual_ack is 0, however the bytes were split.
C9_GrowthByOneQuotient ==
    (/\ run.open /\ run.n > 0 /\ run.sum = run.cwin
     /\ BigSmall(run.alpha, run.alpha) /\ run.alpha[3] <= 1024) =>
        /\ path.cwin = BigAdd(run.cwin, U64((1024 - run.alpha[3]) \div 1024))
        /\ pr.residual_ack = Zero

\* two acknowledgements of 5 bytes at segment size 1536 made up the window of 15360
C9_Witness ==
    /\ ev.kind = "acknowledgement"
    /\ run.open /\ run.n = 2 /\ run.sum = run.cwin
    /\ ev.in.nb_bytes_acknowledged = U64(5)
    /\ run.alpha = Zero
    /\ path.cwin = U64Add(run.cwin, One)

\* C10: on a path that has its private state, picoquic_prague_observe returns the
\* state as cc_state, 0 in slow start and 1 in congestion avoidance, and as cc_param
\* 0 while ssthresh is unset and ssthresh otherwise; it changes no state.
C10_Observe ==
    [][(Live /\ ev'.kind = "observe") =>
         /\ signal' = NoSignal
         /\ ev'.out.cc_state =
                (IF pr.alg_state = picoquic_prague_alg_slow_start THEN 0 ELSE 1)
         /\ ev'.out.cc_param = (IF pr.ssthresh = UINT64_MAX THEN Zero ELSE pr.ssthresh)
         /\ pr' = pr /\ path' = path /\ pkt_ctx' = pkt_ctx
         /\ is_multipath_enabled' = is_multipath_enabled]_vars

\* observed in congestion avoidance with ssthresh set
C10_Witness ==
    /\ ev.kind = "observe"
    /\ ev.out.cc_state = 1
    /\ ev.out.cc_param = pr.ssthresh
    /\ U64Le(PICOQUIC_CWIN_MINIMUM, ev.out.cc_param)

\* C11: a notification of a kind the controller does not handle changes nothing of
\* the controller or the path and the call returns; it only hands the pacing update
\* its slow start flag.
C11_OtherIgnored ==
    [][(Live /\ ev'.kind = "cwin_blocked") =>
         /\ signal' = NoSignal
         /\ pr' = pr
         /\ path' = path
         /\ pkt_ctx' = pkt_ctx
         /\ ev'.unpaced = (/\ pr.alg_state = picoquic_prague_alg_slow_start
                           /\ pr.ssthresh = UINT64_MAX)]_vars

\* ignored after an acknowledgement of 3000 bytes had been counted
C11_Witness ==
    /\ ev.kind = "cwin_blocked"
    /\ pr.acked_bytes_total = U64(3000)
    /\ U64Lt(PICOQUIC_CWIN_INITIAL, path.cwin)
    /\ ev.unpaced

\* C12: a direct ECN-CE notification acts exactly while ssthresh is unset: the window
\* loses one segment, without wrapping, ssthresh becomes that window, the path's
\* is_ssthresh_initialized flag is set and the state is congestion avoidance; with
\* ssthresh set it changes nothing.
C12_EcnEcWhileUnset ==
    [][(Live /\ ev'.kind = "ecn_ec") =>
         IF pr.ssthresh = UINT64_MAX
         THEN /\ U64Lt(ev'.in.send_mtu, path.cwin)
                    => path'.cwin = BigSub(path.cwin, ev'.in.send_mtu)
              /\ U64Le(path'.cwin, path.cwin)
              /\ pr'.ssthresh = path'.cwin
              /\ path'.is_ssthresh_initialized = 1
              /\ pr'.alg_state = picoquic_prague_alg_congestion_avoidance
         ELSE pr' = pr /\ path' = path]_vars

\* a direct ECN-CE notification has left ssthresh unset
C12_Witness ==
    /\ ev.kind = "ecn_ec"
    /\ Live
    /\ pr.ssthresh = UINT64_MAX
    /\ path.is_ssthresh_initialized = 0

\* C13: a spurious-loss notification acts only when it comes less than one smoothed
\* RTT after recovery_start and the window is below 2 * ssthresh; then the window is
\* 2 * ssthresh and the state is congestion avoidance, with ssthresh, alpha and
\* recovery_start as they were; otherwise nothing changes. The double is that of a
\* set ssthresh and does not overflow 64 bits.
C13_SpuriousDoublesSetSsthresh ==
    [][(Live /\ ev'.kind = "spurious_repeat") =>
         IF /\ U64Lt(SinceRecovery(now'), ev'.in.smoothed_rtt)
            /\ BigLt(path.cwin, BigShl(pr.ssthresh, 1))
         THEN /\ pr.ssthresh # UINT64_MAX
              /\ BigShl(pr.ssthresh, 1)[1] < TopLimb
              /\ path'.cwin = BigShl(pr.ssthresh, 1)
              /\ pr' = [pr EXCEPT !.alg_state = picoquic_prague_alg_congestion_avoidance]
         ELSE pr' = pr /\ path' = path]_vars

\* a spurious-loss notification has set the window to 2^64 - 2
C13_Witness ==
    /\ ev.kind = "spurious_repeat"
    /\ pr.ssthresh = UINT64_MAX
    /\ path.cwin = U64Sub(UINT64_MAX, One)
    /\ ev.cwin_in = PICOQUIC_CWIN_INITIAL

\* C17: while ssthresh is unset the state is slow start.
C17_UnsetIsSlowStart ==
    (Live /\ pr.ssthresh = UINT64_MAX) => pr.alg_state = picoquic_prague_alg_slow_start

\* congestion avoidance with ssthresh unset, and the pacing update told so
C17_Witness ==
    /\ Live
    /\ pr.ssthresh = UINT64_MAX
    /\ pr.alg_state = picoquic_prague_alg_congestion_avoidance
    /\ ev.kind = "spurious_repeat"
    /\ ~ev.unpaced

\* C14: a bandwidth notification never lowers the window; while ssthresh is unset and
\* the window is below min_win = (max_bandwidth_estimate * smoothed_rtt / 1000000) / 2
\* the window becomes min_win; with ssthresh set it changes nothing.
C14_BandwidthFloor ==
    [][(Live /\ ev'.kind = "bw_measurement"
          /\ BigSmall(ev'.in.smoothed_rtt, ev'.in.smoothed_rtt)) =>
         /\ signal' = NoSignal
         /\ U64Le(path.cwin, path'.cwin)
         /\ pr' = pr
         /\ (/\ pr.ssthresh = UINT64_MAX
             /\ BigLt(path.cwin,
                      BigShr(MulDiv(ev'.in.max_bandwidth_estimate,
                                    ev'.in.smoothed_rtt[3], 1000000), 1)))
                => path'.cwin = BigShr(MulDiv(ev'.in.max_bandwidth_estimate,
                                              ev'.in.smoothed_rtt[3], 1000000), 1)
         /\ pr.ssthresh # UINT64_MAX => path' = path]_vars

\* the window was raised to half of 400000 bytes/s over 150 ms
C14_Witness ==
    /\ ev.kind = "bw_measurement"
    /\ U64Lt(ev.cwin_in, U64(30000))
    /\ path.cwin = U64(30000)
    /\ pr.ssthresh = UINT64_MAX

\* the window less window * alpha / 2048, floored at PICOQUIC_CWIN_MINIMUM, for an
\* alpha of at most 1024
ReducedWindow(cwin, alpha) ==
    BigMax(BigSub(cwin, MulDiv(cwin, alpha[3], 2048)), PICOQUIC_CWIN_MINIMUM)

\* bytes acknowledged times segment size, plus the carry
CombinedDelta(in, residual_ack) ==
    BigAdd(BigMul(in.nb_bytes_acknowledged, in.send_mtu[3]), residual_ack)

\* the congestion-avoidance growth of a window for a combined delta
GrownWindow(cwin, combined, alpha) ==
    BigAdd(cwin, BigShr(BigMul(BigDivMod(combined, cwin)[1], 1024 - alpha[3]), 10))

\* C15: when an acknowledgement closes an epoch with CE marks and the updated alpha is
\* at most 512, the window is reduced before it grows: ssthresh is the window less
\* window * alpha / 2048, floored at PICOQUIC_CWIN_MINIMUM, the window is ssthresh and
\* the state congestion avoidance, whatever it was; the same call then grows the
\* window by the congestion-avoidance rule; recovery_start, alpha and alpha_shifted
\* are not reset; the reduction is at most a quarter of the window.
C15_ProportionalReduction ==
    [][(/\ ev'.kind = "acknowledgement" /\ ev'.tr.closed
        /\ CountersSmall /\ DeltaCe > 0
        /\ U64Le(ev'.tr.alpha_mid, U64(512))) =>
           /\ signal' = NoSignal
           /\ ev'.tr.reduced /\ ~ev'.tr.recovered
           /\ pr'.ssthresh = ReducedWindow(path.cwin, ev'.tr.alpha_mid)
           /\ ev'.tr.cwin_mid = pr'.ssthresh
           /\ pr'.loss_cwnd = path.cwin
           /\ pr'.alg_state = picoquic_prague_alg_congestion_avoidance
           /\ path'.cwin = GrownWindow(ev'.tr.cwin_mid,
                                       CombinedDelta(ev'.in, pr.residual_ack),
                                       ev'.tr.alpha_mid)
           /\ pr'.residual_ack =
                  BigDivMod(CombinedDelta(ev'.in, pr.residual_ack), ev'.tr.cwin_mid)[2]
           /\ pr'.recovery_start = pr.recovery_start
           /\ pr'.alpha = ev'.tr.alpha_mid
           /\ pr'.alpha_shifted = ev'.tr.shifted_mid
           /\ BigLe(BigShl(BigSub(path.cwin, ev'.tr.cwin_mid), 2), path.cwin)]_vars

\* one ECT0 and one CE mark on the window 2^64 - 2 a spurious repeat had set: alpha 32,
\* and ssthresh above the window less a 64th of it
C15_Witness ==
    /\ ev.kind = "acknowledgement" /\ ev.tr.reduced
    /\ ev.cwin_in = U64Sub(UINT64_MAX, One)
    /\ pr.alpha = U64(32)
    /\ BigLt(ReducedWindow(ev.cwin_in, pr.alpha), pr.ssthresh)

\* C16: an epoch closure with marks and a fraction of at most 512 adds frac - alpha to
\* alpha_shifted, which stays non-negative, and makes alpha alpha_shifted >> 4; a
\* closure without marks leaves both as they were; after the update, and at the end
\* of every call, alpha is alpha_shifted >> 4.
C16_Smoothing ==
    [][/\ (ev'.kind = "acknowledgement" /\ ev'.tr.closed /\ CountersSmall
             /\ DeltaCe >= 0 /\ DeltaEct0 >= 0) =>
            /\ signal' = NoSignal
            /\ (DeltaCe + DeltaEct0 > 0 /\ MarkedFraction <= 512) =>
                  /\ BigLe(pr.alpha, BigAdd(pr.alpha_shifted, U64(MarkedFraction)))
                  /\ ev'.tr.shifted_mid =
                         BigSub(BigAdd(pr.alpha_shifted, U64(MarkedFraction)), pr.alpha)
                  /\ ev'.tr.alpha_mid = BigShr(ev'.tr.shifted_mid, 4)
            /\ (DeltaCe = 0 /\ DeltaEct0 = 0) =>
                  /\ ev'.tr.shifted_mid = pr.alpha_shifted
                  /\ ev'.tr.alpha_mid = pr.alpha
                  /\ pr'.alpha = pr.alpha
                  /\ pr'.alpha_shifted = pr.alpha_shifted
            /\ ev'.tr.alpha_mid = BigShr(ev'.tr.shifted_mid, 4)
       /\ pr'.alpha = BigShr(pr'.alpha_shifted, 4)]_vars

\* alpha 32 (alpha_shifted 512) met an epoch of ECT0 marks only: 512 + (0 - 32) = 480,
\* alpha 30
C16_Witness ==
    /\ ev.kind = "acknowledgement" /\ ev.tr.closed
    /\ ev.tr.frac = Zero
    /\ ev.tr.shifted_mid = U64(480) /\ ev.tr.alpha_mid = U64(30)
    /\ pr.alpha = U64(30) /\ pr.alpha_shifted = U64(480)

\* C18: at the end of every call alpha is at most 512, so the factor 1024 - alpha of
\* the window growth is at least 512: an alpha above 512 comes only from the snap, on
\* CE marks, and recovery is entered in the same call and zeroes it.
C18_AlphaAtMostHalf ==
    /\ U64Le(pr.alpha, U64(512))
    /\ U64Le(U64(512), U64Sub(U64(1024), pr.alpha))
    /\ U64Lt(U64(512), ev.tr.alpha_mid)
           => (ev.tr.recovered /\ pr.alpha = Zero /\ pr.alpha_shifted = Zero)

\* alpha went to 682 on two CE marks and one ECT0 mark and was zeroed before the
\* window grew for the bytes acknowledged
C18_Witness ==
    /\ ev.kind = "acknowledgement"
    /\ ev.tr.alpha_mid = U64(682)
    /\ ev.tr.recovered
    /\ pr.alpha = Zero /\ pr.alpha_shifted = Zero
    /\ ev.in.nb_bytes_acknowledged # Zero

\* C19: once ssthresh is set no notification unsets it; from then on
\* picoquic_prague_observe returns a parameter that is not 0, and the direct ECN-CE,
\* RTT and bandwidth notifications change nothing.
C19_SsthreshStaysSet ==
    [][(Live /\ pr.ssthresh # UINT64_MAX /\ ev'.kind \notin {"init", "delete"}) =>
         /\ pr'.ssthresh # UINT64_MAX
         /\ ev'.kind = "observe" => ev'.out.cc_param # Zero
         /\ ev'.kind \in {"ecn_ec", "rtt_measurement", "bw_measurement"}
                => (pr' = pr /\ path' = path)]_vars

\* a bandwidth notification that would have raised the window came in slow start
\* after a timeout had set ssthresh
C19_Witness ==
    /\ ev.kind = "bw_measurement"
    /\ Live
    /\ pr.ssthresh # UINT64_MAX
    /\ pr.alg_state = picoquic_prague_alg_slow_start
    /\ ev.in.smoothed_rtt = U64(150000)
    /\ path.cwin = PICOQUIC_CWIN_MINIMUM

\* C20: when a spurious-loss notification follows, within one smoothed RTT, the Loss
\* or Timeout that entered recovery, the window it leaves is no greater than the
\* window held before that recovery entry.
C20_SpuriousRestoresAtMost ==
    [][(/\ IsLoss(ev) /\ ev.tr.recovered
        /\ ev'.kind = "spurious_repeat"
        /\ U64Lt(SinceRecovery(now'), ev'.in.smoothed_rtt))
          => U64Le(path'.cwin, ev.cwin_in)]_vars

\* a Loss entered recovery on a window of 3072 and the spurious-loss notification
\* after it left a window of 6144
C20_Witness ==
    /\ ev.kind = "spurious_repeat"
    /\ ev.cwin_in = PICOQUIC_CWIN_MINIMUM
    /\ pr.ssthresh = PICOQUIC_CWIN_MINIMUM
    /\ path.cwin = U64(6144)
    /\ U64Lt(SinceRecovery(now), ev.in.smoothed_rtt)

====
